---- MODULE Spec2Model ----
(***************************************************************************)
(* Model of phosphor-queue (src/src/index.ts): class Queue<T>, a FIFO      *)
(* queue kept as a singly linked chain of IQueueLink objects with a cached *)
(* _front, _back and _size.                                                *)
(*                                                                         *)
(* The IQueueLink objects live in a heap of MaxNodes cells; a cell is      *)
(* identified by a number in Links and the heap is the pair of functions   *)
(* next / value.  null is the JavaScript null reference.                   *)
(***************************************************************************)
EXTENDS Integers, Sequences, FiniteSets, TLC

\* ------------------------------------------------------------------ bounds
MaxNodes == 4     \* IQueueLink objects that can be alive at the same time
MaxPush == 4      \* calls of push in one behaviour (the constructor's included)
MaxInit == 2      \* length of the items array handed to the constructor
MaxReadPush == 3  \* calls of push in one behaviour that also reads and traverses
MaxMutPush == 3   \* calls of push in one behaviour whose callbacks mutate the queue

\* ------------------------------------------------------------- value domain
null == 0
undefined == "undefined"
hole == "<empty>"
NaN == "NaN"
Values == {"a", "b", NaN}
Links == 1..MaxNodes

\* `link.value === value` on the modelled values: NaN is not equal to itself
StrictEq(a, b) == a = b /\ a # NaN

\* ------------------------------------------------------------------- state
VARIABLES
  _size,      \* Queue._size
  _front,     \* Queue._front : a link or null
  _back,      \* Queue._back  : a link or null
  next,       \* IQueueLink.next  of every heap cell
  value,      \* IQueueLink.value of every heap cell
  last,       \* history: the last call, its argument, result and pre-state
  nPush,      \* history: calls of push
  nPop,       \* history: calls of pop made on a non-empty queue
  nRemoved,   \* history: elements reported removed by remove / removeAll
  usedClear,  \* history: clear has been called
  run,        \* history: the current "n pushes then pops" run
  abs         \* history: the abstract sequence run side by side, and its last result

vars == <<_size, _front, _back, next, value, last, nPush, nPop, nRemoved, usedClear, run, abs>>

\* the queue object together with the heap it points into
This == [_size |-> _size, _front |-> _front, _back |-> _back, next |-> next, value |-> value]

\* field initialisers of class Queue
fresh == [_size |-> 0, _front |-> null, _back |-> null, next |-> [l \in Links |-> null], value |-> [l \in Links |-> undefined]]

\* ------------------------------------------------------------ heap helpers
RECURSIVE reachFrom(_, _, _)
reachFrom(q, link, fuel) ==
  IF link = null \/ fuel = 0 THEN {}
  ELSE {link} \cup reachFrom(q, q.next[link], fuel - 1)

\* links the queue object can still reach (everything else is garbage)
live(q) == reachFrom(q, q._front, MaxNodes) \cup reachFrom(q, q._back, MaxNodes)

\* garbage collection: an unreachable link is unobservable, its cell is reset
collect(q) ==
  [q EXCEPT !.next = [l \in Links |-> IF l \in live(q) THEN q.next[l] ELSE null],
            !.value = [l \in Links |-> IF l \in live(q) THEN q.value[l] ELSE undefined]]

\* cells holding no object: never used, or collected.  A link that was
\* unlinked while a traversal is under way keeps its cell, since the
\* traversal may still hold it.
unused(q) == {l \in Links \ live(q) : q.value[l] = undefined /\ q.next[l] = null}

\* the cell of a newly created object literal
newLink(q) == CHOOSE l \in unused(q) : \A m \in unused(q) : l <= m

\* --------------------------------------------------------------- accessors
size(q) == q._size

empty(q) == q._size = 0

front(q) == IF q._front # null THEN q.value[q._front] ELSE undefined

back(q) == IF q._back # null THEN q.value[q._back] ELSE undefined

\* ---------------------------------------------------------------- mutators
\* mutant of push: the new link is put before _front instead of after _back
pushFront(q, v) ==
  LET link == newLink(q)
      h == [q EXCEPT !.next[link] = q._front, !.value[link] = v]
  IN IF q._back = null
       THEN [h EXCEPT !._front = link, !._back = link, !._size = @ + 1]
       ELSE [h EXCEPT !._front = link, !._size = @ + 1]

\* mutant of push: on a non-empty queue the old last link is not linked to the new one
pushNoLink(q, v) ==
  LET link == newLink(q)
      h == [q EXCEPT !.next[link] = null, !.value[link] = v]
  IN IF q._back = null
       THEN [h EXCEPT !._front = link, !._back = link, !._size = @ + 1]
       ELSE [h EXCEPT !._back = link, !._size = @ + 1]

push(q, v) ==
  LET link == newLink(q)
      h == [q EXCEPT !.next[link] = null, !.value[link] = v]
  IN IF q._back = null
       THEN [h EXCEPT !._front = link, !._back = link, !._size = @ + 1]
       ELSE [h EXCEPT !.next[q._back] = link, !._back = link, !._size = @ + 1]

\* mutant of pop: _back is not reset when the last link is popped
popKeepBack(q) ==
  LET link == q._front
  IN IF link = null THEN [q |-> q, ret |-> undefined]
     ELSE [q |-> [q EXCEPT !._front = q.next[link], !._size = @ - 1],
           ret |-> q.value[link]]

\* mutant of pop: _size is decremented before the emptiness test
popDecOnEmpty(q) ==
  LET link == q._front
      d == [q EXCEPT !._size = @ - 1]
  IN IF link = null THEN [q |-> d, ret |-> undefined]
     ELSE IF q.next[link] = null
       THEN [q |-> [d EXCEPT !._front = null, !._back = null], ret |-> q.value[link]]
       ELSE [q |-> [d EXCEPT !._front = q.next[link]], ret |-> q.value[link]]

\* mutant of pop: the value is read after _front has been advanced
popReturnNew(q) ==
  LET link == q._front
  IN IF link = null THEN [q |-> q, ret |-> undefined]
     ELSE IF q.next[link] = null
       THEN [q |-> [q EXCEPT !._front = null, !._back = null, !._size = @ - 1],
             ret |-> undefined]
       ELSE [q |-> [q EXCEPT !._front = q.next[link], !._size = @ - 1],
             ret |-> q.value[q.next[link]]]

pop(q) ==
  LET link == q._front
  IN IF link = null THEN [q |-> q, ret |-> undefined]
     ELSE IF q.next[link] = null
       THEN [q |-> [q EXCEPT !._front = null, !._back = null, !._size = @ - 1],
             ret |-> q.value[link]]
       ELSE [q |-> [q EXCEPT !._front = q.next[link], !._size = @ - 1],
             ret |-> q.value[link]]

\* one more execution of a loop body
bump(r) == [r EXCEPT !.iters = @ + 1]

\* mutant of removeLoop: _size is not decremented
RECURSIVE removeLoopKeepSize(_, _, _, _)
removeLoopKeepSize(q, v, link, prev) ==
  IF link = null THEN [q |-> q, ret |-> FALSE, iters |-> 0]
  ELSE IF StrictEq(q.value[link], v)
    THEN LET q1 == IF prev = null THEN [q EXCEPT !._front = q.next[link]]
                   ELSE [q EXCEPT !.next[prev] = q.next[link]]
             q2 == IF q1.next[link] = null THEN [q1 EXCEPT !._back = prev] ELSE q1
         IN [q |-> q2, ret |-> TRUE, iters |-> 1]
    ELSE bump(removeLoopKeepSize(q, v, q.next[link], link))

\* mutant of removeLoop: _back is not moved when the removed link is the last
RECURSIVE removeLoopKeepBack(_, _, _, _)
removeLoopKeepBack(q, v, link, prev) ==
  IF link = null THEN [q |-> q, ret |-> FALSE, iters |-> 0]
  ELSE IF StrictEq(q.value[link], v)
    THEN LET q1 == IF prev = null THEN [q EXCEPT !._front = q.next[link]]
                   ELSE [q EXCEPT !.next[prev] = q.next[link]]
         IN [q |-> [q1 EXCEPT !._size = @ - 1], ret |-> TRUE, iters |-> 1]
    ELSE bump(removeLoopKeepBack(q, v, q.next[link], link))

RECURSIVE removeLoop(_, _, _, _)
removeLoop(q, v, link, prev) ==
  IF link = null THEN [q |-> q, ret |-> FALSE, iters |-> 0]
  ELSE IF StrictEq(q.value[link], v)
    THEN LET q1 == IF prev = null THEN [q EXCEPT !._front = q.next[link]]
                   ELSE [q EXCEPT !.next[prev] = q.next[link]]
             q2 == IF q1.next[link] = null THEN [q1 EXCEPT !._back = prev] ELSE q1
         IN [q |-> [q2 EXCEPT !._size = @ - 1], ret |-> TRUE, iters |-> 1]
    ELSE bump(removeLoop(q, v, q.next[link], link))

\* mutant of removeAllLoop: _size is not decremented on a match
RECURSIVE removeAllLoopKeepSize(_, _, _, _, _)
removeAllLoopKeepSize(q, v, count, link, prev) ==
  IF link = null
    THEN IF prev = null
           THEN [q |-> [q EXCEPT !._front = null, !._back = null], ret |-> count, iters |-> 0]
           ELSE [q |-> [q EXCEPT !.next[prev] = null, !._back = prev], ret |-> count, iters |-> 0]
  ELSE IF StrictEq(q.value[link], v)
    THEN bump(removeAllLoopKeepSize(q, v, count + 1, q.next[link], prev))
  ELSE IF prev = null
    THEN bump(removeAllLoopKeepSize([q EXCEPT !._front = link], v, count, q.next[link], link))
  ELSE LET q1 == [q EXCEPT !.next[prev] = link]
       IN bump(removeAllLoopKeepSize(q1, v, count, q1.next[link], link))

\* mutant of removeAllLoop: the last survivor's next is not cut after the loop
RECURSIVE removeAllLoopKeepTail(_, _, _, _, _)
removeAllLoopKeepTail(q, v, count, link, prev) ==
  IF link = null
    THEN IF prev = null
           THEN [q |-> [q EXCEPT !._front = null, !._back = null], ret |-> count, iters |-> 0]
           ELSE [q |-> [q EXCEPT !._back = prev], ret |-> count, iters |-> 0]
  ELSE IF StrictEq(q.value[link], v)
    THEN bump(removeAllLoopKeepTail([q EXCEPT !._size = @ - 1], v, count + 1, q.next[link], prev))
  ELSE IF prev = null
    THEN bump(removeAllLoopKeepTail([q EXCEPT !._front = link], v, count, q.next[link], link))
  ELSE LET q1 == [q EXCEPT !.next[prev] = link]
       IN bump(removeAllLoopKeepTail(q1, v, count, q1.next[link], link))

RECURSIVE removeAllLoop(_, _, _, _, _)
removeAllLoop(q, v, count, link, prev) ==
  IF link = null
    THEN IF prev = null
           THEN [q |-> [q EXCEPT !._front = null, !._back = null], ret |-> count, iters |-> 0]
           ELSE [q |-> [q EXCEPT !.next[prev] = null, !._back = prev], ret |-> count, iters |-> 0]
  ELSE IF StrictEq(q.value[link], v)
    THEN bump(removeAllLoop([q EXCEPT !._size = @ - 1], v, count + 1, q.next[link], prev))
  ELSE IF prev = null
    THEN bump(removeAllLoop([q EXCEPT !._front = link], v, count, q.next[link], link))
  ELSE LET q1 == [q EXCEPT !.next[prev] = link]
       IN bump(removeAllLoop(q1, v, count, q1.next[link], link))

\* mutant of removeAll: remove is called until it finds nothing (each call rescans)
RECURSIVE removeAllByRemove(_, _)
removeAllByRemove(q, v) ==
  LET r == removeLoop(q, v, q._front, null)
  IN IF r.ret
       THEN LET t == removeAllByRemove(r.q, v)
            IN [q |-> t.q, ret |-> t.ret + 1, iters |-> r.iters + t.iters]
       ELSE [q |-> r.q, ret |-> 0, iters |-> r.iters]

removeAll(q, v) == removeAllLoop(q, v, 0, q._front, null)

\* mutant of remove: the loop does not return at the first match
removeEvery(q, v) ==
  LET r == removeAllLoop(q, v, 0, q._front, null)
  IN [q |-> r.q, ret |-> r.ret > 0, iters |-> r.iters]

\* mutant of remove: _size is decremented after the loop, found or not
removeDecAfterLoop(q, v) ==
  LET r == removeLoopKeepSize(q, v, q._front, null)
  IN [q |-> [r.q EXCEPT !._size = @ - 1], ret |-> r.ret, iters |-> r.iters]

remove(q, v) == removeLoop(q, v, q._front, null)

\* mutant of clear: _front is not reset
clearKeepFront(q) == [q EXCEPT !._size = 0, !._back = null]

clear(q) == [q EXCEPT !._size = 0, !._front = null, !._back = null]

\* ----------------------------------------------------------------- toArray
\* `result[i] = v` on a JavaScript array: in range it overwrites, past the
\* end it grows the array (the skipped positions stay holes)
setAt(arr, i, v) ==
  [k \in 1..(IF i < Len(arr) THEN Len(arr) ELSE i + 1) |->
     IF k = i + 1 THEN v ELSE IF k <= Len(arr) THEN arr[k] ELSE hole]

RECURSIVE toArrayLoop(_, _, _, _)
toArrayLoop(q, result, i, link) ==
  IF link = null THEN [result |-> result, i |-> i]
  ELSE toArrayLoop(q, setAt(result, i, q.value[link]), i + 1, q.next[link])

toArray(q) == toArrayLoop(q, [k \in 1..q._size |-> hole], 0, q._front).result

\* --------------------------------------------------- the caller's functions
\* The functions handed to some / every / filter / map / forEach, as small
\* families of (value, index) functions.  A function may throw.  None of them
\* touches the queue: they hand q back as they got it.
Preds ==
  {[kind |-> "valueIs", x |-> x] : x \in Values}
    \cup {[kind |-> "indexLt", k |-> k] : k \in {1, 2}}
    \cup {[kind |-> "const", r |-> TRUE]}
    \cup {[kind |-> "throwAt", k |-> 1, r |-> r] : r \in BOOLEAN}

Transforms ==
  {[kind |-> "same"], [kind |-> "mark", k |-> 1], [kind |-> "nothing"],
   [kind |-> "throwAt", k |-> 1, r |-> "x"]}

Callbacks ==
  {[kind |-> "stopAt", x |-> x, r |-> "true"] : x \in {"a", "b"}}
    \cup {[kind |-> "stopAtIndex", k |-> 1, r |-> "false"], [kind |-> "nothing"],
          [kind |-> "throwAt", k |-> 1, r |-> undefined]}

\* Functions that break the contract and call a mutator of the queue they are
\* traversing: at the call with index i the function runs ops[i + 1], past
\* the end of ops it runs rest, and then returns r.  "remove" and "removeAll"
\* take the value the function was called with.
Scripts ==
  {[ops |-> <<"none", "push">>, rest |-> "none"],
   [ops |-> <<>>, rest |-> "pop"],
   [ops |-> <<>>, rest |-> "remove"],
   [ops |-> <<"none", "removeAll">>, rest |-> "none"],
   [ops |-> <<"clear", "push">>, rest |-> "none"]}

Mutating(r) == {[kind |-> "mutate", ops |-> c.ops, rest |-> c.rest, r |-> r] : c \in Scripts}

opAt(fn, i) == IF i < Len(fn.ops) THEN fn.ops[i + 1] ELSE fn.rest

\* the mutator call made by a function of Mutating, run to completion
mutate(op, q, v) ==
  CASE op = "push" -> push(q, "b")
    [] op = "pop" -> pop(q).q
    [] op = "remove" -> remove(q, v).q
    [] op = "removeAll" -> removeAll(q, v).q
    [] op = "clear" -> clear(q)
    [] op = "none" -> q

\* the call fn(v, i): the queue after it, what it returns, whether it threw
invoke(fn, q, v, i) ==
  CASE fn.kind = "valueIs" -> [q |-> q, ret |-> StrictEq(v, fn.x), threw |-> FALSE]
    [] fn.kind = "indexLt" -> [q |-> q, ret |-> i < fn.k, threw |-> FALSE]
    [] fn.kind = "const" -> [q |-> q, ret |-> fn.r, threw |-> FALSE]
    [] fn.kind = "same" -> [q |-> q, ret |-> v, threw |-> FALSE]
    [] fn.kind = "mark" -> [q |-> q, ret |-> IF i = fn.k THEN "x" ELSE v, threw |-> FALSE]
    [] fn.kind = "nothing" -> [q |-> q, ret |-> undefined, threw |-> FALSE]
    [] fn.kind = "stopAt" -> [q |-> q, ret |-> IF StrictEq(v, fn.x) THEN fn.r ELSE undefined, threw |-> FALSE]
    [] fn.kind = "stopAtIndex" -> [q |-> q, ret |-> IF i = fn.k THEN fn.r ELSE undefined, threw |-> FALSE]
    [] fn.kind = "throwAt" -> [q |-> q, ret |-> fn.r, threw |-> i = fn.k]
    [] fn.kind = "mutate" -> [q |-> mutate(opAt(fn, i), q, v), ret |-> fn.r, threw |-> FALSE]

\* JavaScript truthiness of the values a forEach callback returns here
truthy(x) == x \notin {undefined, "false"}

\* -------------------------------------------------------------- traversals
\* Every traversal gives: q the queue after it, ret its result, threw whether
\* the function's exception left it, calls the (value, index) pairs handed to
\* the function in order, iters the loop bodies entered, after the queue as
\* each call of the function left it.
abort(q, calls, i) ==
  [q |-> q, ret |-> undefined, threw |-> TRUE, calls |-> calls, iters |-> i, after |-> <<>>]

done(q, ret, calls, i) ==
  [q |-> q, ret |-> ret, threw |-> FALSE, calls |-> calls, iters |-> i, after |-> <<>>]

\* r is the rest of a traversal whose function has just handed back the queue q
note(q, r) == [r EXCEPT !.after = <<q>> \o @]

\* mutant of someLoop: the loop goes on after the first match
RECURSIVE someLoopNoReturn(_, _, _, _, _, _)
someLoopNoReturn(q, pred, found, i, link, calls) ==
  IF link = null THEN done(q, found, calls, i)
  ELSE LET c == invoke(pred, q, q.value[link], i)
           seen == Append(calls, <<q.value[link], i>>)
       IN note(c.q, IF c.threw THEN abort(c.q, seen, i + 1)
          ELSE someLoopNoReturn(c.q, pred, found \/ c.ret, i + 1, c.q.next[link], seen))

someLoopAll(q, pred, i, link, calls) == someLoopNoReturn(q, pred, FALSE, i, link, calls)

RECURSIVE someLoop(_, _, _, _, _)
someLoop(q, pred, i, link, calls) ==
  IF link = null THEN done(q, FALSE, calls, i)
  ELSE LET c == invoke(pred, q, q.value[link], i)
           seen == Append(calls, <<q.value[link], i>>)
       IN note(c.q, IF c.threw THEN abort(c.q, seen, i + 1)
          ELSE IF c.ret THEN done(c.q, TRUE, seen, i + 1)
          ELSE someLoop(c.q, pred, i + 1, c.q.next[link], seen))

some(q, pred) == someLoop(q, pred, 0, q._front, <<>>)

RECURSIVE everyLoop(_, _, _, _, _)
everyLoop(q, pred, i, link, calls) ==
  IF link = null THEN done(q, TRUE, calls, i)
  ELSE LET c == invoke(pred, q, q.value[link], i)
           seen == Append(calls, <<q.value[link], i>>)
       IN note(c.q, IF c.threw THEN abort(c.q, seen, i + 1)
          ELSE IF ~c.ret THEN done(c.q, FALSE, seen, i + 1)
          ELSE everyLoop(c.q, pred, i + 1, c.q.next[link], seen))

every(q, pred) == everyLoop(q, pred, 0, q._front, <<>>)

\* mutant of filterLoop: the index is never incremented
RECURSIVE filterLoopNoIncrement(_, _, _, _, _, _)
filterLoopNoIncrement(q, pred, result, i, link, calls) ==
  IF link = null THEN done(q, result, calls, Len(calls))
  ELSE LET c == invoke(pred, q, q.value[link], i)
           seen == Append(calls, <<q.value[link], i>>)
       IN note(c.q, IF c.threw THEN abort(c.q, seen, Len(seen))
          ELSE filterLoopNoIncrement(c.q, pred, IF c.ret THEN Append(result, q.value[link]) ELSE result,
                                     i, c.q.next[link], seen))

RECURSIVE filterLoop(_, _, _, _, _, _)
filterLoop(q, pred, result, i, link, calls) ==
  IF link = null THEN done(q, result, calls, i)
  ELSE LET c == invoke(pred, q, q.value[link], i)
           seen == Append(calls, <<q.value[link], i>>)
       IN note(c.q, IF c.threw THEN abort(c.q, seen, i + 1)
          ELSE filterLoop(c.q, pred, IF c.ret THEN Append(result, c.q.value[link]) ELSE result,
                          i + 1, c.q.next[link], seen))

filter(q, pred) == filterLoop(q, pred, <<>>, 0, q._front, <<>>)

\* mutant of mapLoop: the result is pushed onto the array, not stored at index i
RECURSIVE mapLoopPush(_, _, _, _, _, _)
mapLoopPush(q, callback, result, i, link, calls) ==
  IF link = null THEN done(q, result, calls, i)
  ELSE LET c == invoke(callback, q, q.value[link], i)
           seen == Append(calls, <<q.value[link], i>>)
       IN note(c.q, IF c.threw THEN abort(c.q, seen, i + 1)
          ELSE mapLoopPush(c.q, callback, Append(result, c.ret), i + 1, c.q.next[link], seen))

RECURSIVE mapLoop(_, _, _, _, _, _)
mapLoop(q, callback, result, i, link, calls) ==
  IF link = null THEN done(q, result, calls, i)
  ELSE LET c == invoke(callback, q, q.value[link], i)
           seen == Append(calls, <<q.value[link], i>>)
       IN note(c.q, IF c.threw THEN abort(c.q, seen, i + 1)
          ELSE mapLoop(c.q, callback, setAt(result, i, c.ret), i + 1, c.q.next[link], seen))

map(q, callback) == mapLoop(q, callback, [k \in 1..q._size |-> hole], 0, q._front, <<>>)

\* mutant of forEachLoop: the result is tested for truthiness, not against undefined
RECURSIVE forEachLoopTruthy(_, _, _, _, _)
forEachLoopTruthy(q, callback, i, link, calls) ==
  IF link = null THEN done(q, undefined, calls, i)
  ELSE LET c == invoke(callback, q, q.value[link], i)
           seen == Append(calls, <<q.value[link], i>>)
       IN note(c.q, IF c.threw THEN abort(c.q, seen, i + 1)
          ELSE IF truthy(c.ret) THEN done(c.q, c.ret, seen, i + 1)
          ELSE forEachLoopTruthy(c.q, callback, i + 1, c.q.next[link], seen))

\* mutant of forEachLoop: every visited link is taken off the front of the queue
RECURSIVE forEachLoopConsuming(_, _, _, _, _)
forEachLoopConsuming(q, callback, i, link, calls) ==
  IF link = null THEN done(q, undefined, calls, i)
  ELSE LET c == invoke(callback, pop(q).q, q.value[link], i)
           seen == Append(calls, <<q.value[link], i>>)
       IN note(c.q, IF c.threw THEN abort(c.q, seen, i + 1)
          ELSE IF c.ret # undefined THEN done(c.q, c.ret, seen, i + 1)
          ELSE forEachLoopConsuming(c.q, callback, i + 1, q.next[link], seen))

\* forEach, had its loop moved _front along with its cursor
RECURSIVE forEachLoopUnlinking(_, _, _, _, _)
forEachLoopUnlinking(q, callback, i, link, calls) ==
  IF link = null THEN done(q, undefined, calls, i)
  ELSE LET c == invoke(callback, [q EXCEPT !._front = q.next[link]], q.value[link], i)
           seen == Append(calls, <<q.value[link], i>>)
       IN note(c.q, IF c.threw THEN abort(c.q, seen, i + 1)
          ELSE IF c.ret # undefined THEN done(c.q, c.ret, seen, i + 1)
          ELSE forEachLoopUnlinking(c.q, callback, i + 1, c.q.next[link], seen))

RECURSIVE forEachLoop(_, _, _, _, _)
forEachLoop(q, callback, i, link, calls) ==
  IF link = null THEN done(q, undefined, calls, i)
  ELSE LET c == invoke(callback, q, q.value[link], i)
           seen == Append(calls, <<q.value[link], i>>)
       IN note(c.q, IF c.threw THEN abort(c.q, seen, i + 1)
          ELSE IF c.ret # undefined THEN done(c.q, c.ret, seen, i + 1)
          ELSE forEachLoop(c.q, callback, i + 1, c.q.next[link], seen))

forEach(q, callback) == forEachLoop(q, callback, 0, q._front, <<>>)

\* ------------------------------------------------------------- constructor
\* mutant of construct: the items are pushed from the last to the first
RECURSIVE constructReversed(_)
constructReversed(items) ==
  IF items = <<>> THEN fresh
  ELSE IF Head(items) = hole THEN constructReversed(Tail(items))
  ELSE push(constructReversed(Tail(items)), Head(items))

\* mutant of construct: the first item is not pushed
RECURSIVE constructSkipFirst(_)
constructSkipFirst(items) ==
  IF Len(items) <= 1 THEN fresh
  ELSE IF items[Len(items)] = hole THEN constructSkipFirst(SubSeq(items, 1, Len(items) - 1))
  ELSE push(constructSkipFirst(SubSeq(items, 1, Len(items) - 1)), items[Len(items)])

\* `if (items) items.forEach(item => this.push(item))`: the items are pushed
\* in index order; Array.prototype.forEach does not visit the holes of an
\* array.  Called without an argument the queue stays as initialised, which
\* is construct(<<>>).
RECURSIVE construct(_)
construct(items) ==
  IF items = <<>> THEN fresh
  ELSE IF items[Len(items)] = hole THEN construct(SubSeq(items, 1, Len(items) - 1))
  ELSE push(construct(SubSeq(items, 1, Len(items) - 1)), items[Len(items)])

InitItems == UNION {[1..n -> Values] : n \in 0..MaxInit}

\* -------------------------------------------------- sequences of values
\* the link reached from `link` after k steps along next (null once past the end)
RECURSIVE walk(_, _, _)
walk(q, link, k) ==
  IF k <= 0 \/ link = null THEN link ELSE walk(q, q.next[link], k - 1)

\* x occurs in the sequence s, by the equality remove / removeAll use
occurs(s, x) == \E i \in 1..Len(s) : StrictEq(s[i], x)

firstIndex(s, x) ==
  CHOOSE i \in 1..Len(s) : StrictEq(s[i], x) /\ \A j \in 1..(i - 1) : ~StrictEq(s[j], x)

without(s, i) == SubSeq(s, 1, i - 1) \o SubSeq(s, i + 1, Len(s))

countOf(s, x) == Cardinality({i \in 1..Len(s) : StrictEq(s[i], x)})

RECURSIVE filterOut(_, _)
filterOut(s, x) ==
  IF s = <<>> THEN <<>>
  ELSE IF StrictEq(Head(s), x) THEN filterOut(Tail(s), x)
  ELSE <<Head(s)>> \o filterOut(Tail(s), x)

\* --------------------------------------------- the abstract queue (claims)
\* a plain sequence S operated side by side with the linked queue: every
\* operator gives the new S and the value the abstract operation returns
absPush(S, v) == [S |-> Append(S, v), ret |-> undefined]

absPop(S) == IF S = <<>> THEN [S |-> S, ret |-> undefined] ELSE [S |-> Tail(S), ret |-> Head(S)]

absRemove(S, x) ==
  IF occurs(S, x) THEN [S |-> without(S, firstIndex(S, x)), ret |-> TRUE]
  ELSE [S |-> S, ret |-> FALSE]

absRemoveAll(S, x) == [S |-> filterOut(S, x), ret |-> countOf(S, x)]

absClear(S) == [S |-> <<>>, ret |-> undefined]

\* ------------------------------------------------------------------ actions
Apply(q) ==
  LET c == collect(q)
  IN /\ _size' = c._size
     /\ _front' = c._front
     /\ _back' = c._back
     /\ next' = c.next
     /\ value' = c.value

noRun == [phase |-> "none", vals |-> <<>>, got |-> <<>>]

Init ==
  \E items \in InitItems :
     /\ _size = construct(items)._size
     /\ _front = construct(items)._front
     /\ _back = construct(items)._back
     /\ next = construct(items).next
     /\ value = construct(items).value
     /\ last = [op |-> "new", arg |-> items, ret |-> undefined, pre |-> fresh, iters |-> 0]
     /\ nPush = Len(items)
     /\ nPop = 0
     /\ nRemoved = 0
     /\ usedClear = FALSE
     /\ run = [phase |-> "push", vals |-> items, got |-> <<>>]
     /\ abs = [S |-> items, ret |-> undefined]

Push(v) ==
  /\ nPush < MaxPush
  /\ Links \ live(This) # {}
  /\ Apply(push(This, v))
  /\ last' = [op |-> "push", arg |-> v, ret |-> undefined, pre |-> This, iters |-> 0]
  /\ nPush' = nPush + 1
  /\ abs' = absPush(abs.S, v)
  /\ run' = IF empty(This) THEN [phase |-> "push", vals |-> <<v>>, got |-> <<>>]
            ELSE IF run.phase = "push" THEN [run EXCEPT !.vals = Append(@, v)]
            ELSE noRun
  /\ UNCHANGED <<nPop, nRemoved, usedClear>>

Pop ==
  LET r == pop(This)
  IN /\ Apply(r.q)
     /\ last' = [op |-> "pop", arg |-> undefined, ret |-> r.ret, pre |-> This, iters |-> 0]
     /\ nPop' = IF empty(This) THEN nPop ELSE nPop + 1
     /\ abs' = absPop(abs.S)
     /\ run' = IF run.phase \in {"push", "pop"} /\ Len(run.got) < Len(run.vals)
                 THEN [run EXCEPT !.phase = "pop", !.got = Append(@, r.ret)]
                 ELSE noRun
     /\ UNCHANGED <<nPush, nRemoved, usedClear>>

Remove(v) ==
  LET r == remove(This, v)
  IN /\ Apply(r.q)
     /\ last' = [op |-> "remove", arg |-> v, ret |-> r.ret, pre |-> This, iters |-> r.iters]
     /\ nRemoved' = IF r.ret THEN nRemoved + 1 ELSE nRemoved
     /\ abs' = absRemove(abs.S, v)
     /\ run' = noRun
     /\ UNCHANGED <<nPush, nPop, usedClear>>

RemoveAll(v) ==
  LET r == removeAll(This, v)
  IN /\ Apply(r.q)
     /\ last' = [op |-> "removeAll", arg |-> v, ret |-> r.ret, pre |-> This, iters |-> r.iters]
     /\ nRemoved' = nRemoved + r.ret
     /\ abs' = absRemoveAll(abs.S, v)
     /\ run' = noRun
     /\ UNCHANGED <<nPush, nPop, usedClear>>

Clear ==
  /\ Apply(clear(This))
  /\ last' = [op |-> "clear", arg |-> undefined, ret |-> undefined, pre |-> This, iters |-> 0]
  /\ usedClear' = TRUE
  /\ abs' = absClear(abs.S)
  /\ run' = noRun
  /\ UNCHANGED <<nPush, nPop, nRemoved>>

Next ==
  \/ \E v \in Values : Push(v)
  \/ Pop
  \/ \E v \in Values : Remove(v)
  \/ \E v \in Values : RemoveAll(v)
  \/ Clear

Spec == Init /\ [][Next]_vars

\* -------------------------------------------- reading and traversing actions
histUnchanged == UNCHANGED <<nPush, nPop, nRemoved, usedClear, run, abs>>

\* the calls that assign to the queue, and the constructor
Mutators == {"new", "push", "pop", "remove", "removeAll", "clear"}

\* a getter or toArray: no assignment to the queue.  Reads are taken right
\* after a constructor or mutator call (a read after a read starts from the
\* same queue and history, so it reaches nothing new).
Observe(op, ret, n) ==
  /\ last.op \in Mutators
  /\ UNCHANGED <<_size, _front, _back, next, value>>
  /\ last' = [op |-> op, arg |-> undefined, ret |-> ret, pre |-> This, iters |-> n,
              calls |-> <<>>, threw |-> FALSE]
  /\ histUnchanged

\* a traversal r of the queue with the caller's function fn
Traverse(op, fn, r) ==
  /\ last.op \in Mutators
  /\ Apply(r.q)
  /\ last' = [op |-> op, arg |-> fn, ret |-> r.ret, pre |-> This, iters |-> r.iters,
              calls |-> r.calls, threw |-> r.threw]
  /\ histUnchanged

Size == Observe("size", size(This), 0)

Empty == Observe("empty", empty(This), 0)

Front == Observe("front", front(This), 0)

Back == Observe("back", back(This), 0)

ToArray ==
  Observe("toArray", toArray(This), toArrayLoop(This, [k \in 1.._size |-> hole], 0, _front).i)

Some(pred) == Traverse("some", pred, some(This, pred))

Every(pred) == Traverse("every", pred, every(This, pred))

Filter(pred) == Traverse("filter", pred, filter(This, pred))

Map(callback) == Traverse("map", callback, map(This, callback))

ForEach(callback) == Traverse("forEach", callback, forEach(This, callback))

NextRead ==
  \/ \E v \in Values : nPush < MaxReadPush /\ Push(v)
  \/ Pop
  \/ \E v \in Values : Remove(v)
  \/ \E v \in Values : RemoveAll(v)
  \/ Clear
  \/ Size
  \/ Empty
  \/ Front
  \/ Back
  \/ ToArray
  \/ \E pred \in Preds : Some(pred)
  \/ \E pred \in Preds : Every(pred)
  \/ \E pred \in Preds : Filter(pred)
  \/ \E callback \in Transforms : Map(callback)
  \/ \E callback \in Callbacks : ForEach(callback)

SpecRead == Init /\ [][NextRead]_vars

\* ------------------------------- traversals whose function mutates the queue
\* the calls of push made by the function fn during its first n calls
pushesIn(fn, n) == Cardinality({i \in 0..(n - 1) : opAt(fn, i) = "push"})

\* A traversal r with a function of Mutating.  The pushes of the function
\* count for the bound on pushes; the other histories are not kept up through
\* the function's calls.
TraverseMut(op, fn, r) ==
  /\ last.op \in Mutators
  /\ pushesIn(fn, MaxNodes) > 0 => nPush < MaxMutPush /\ Links \ live(This) # {}
  /\ Apply(r.q)
  /\ last' = [op |-> op, arg |-> fn, ret |-> r.ret, pre |-> This, iters |-> r.iters,
              calls |-> r.calls, threw |-> r.threw, after |-> r.after]
  /\ nPush' = nPush + pushesIn(fn, Len(r.calls))
  /\ run' = noRun
  /\ UNCHANGED <<nPop, nRemoved, usedClear, abs>>

SomeMut(fn) == TraverseMut("some", fn, some(This, fn))

EveryMut(fn) == TraverseMut("every", fn, every(This, fn))

FilterMut(fn) == TraverseMut("filter", fn, filter(This, fn))

MapMut(fn) == TraverseMut("map", fn, map(This, fn))

ForEachMut(fn) == TraverseMut("forEach", fn, forEach(This, fn))

NextMut ==
  \/ \E v \in Values : nPush < MaxMutPush /\ Push(v)
  \/ Pop
  \/ \E v \in Values : Remove(v)
  \/ \E v \in Values : RemoveAll(v)
  \/ Clear
  \/ \E fn \in Mutating(FALSE) : SomeMut(fn)
  \/ \E fn \in Mutating(TRUE) : EveryMut(fn)
  \/ \E fn \in Mutating(TRUE) : FilterMut(fn)
  \/ \E fn \in Mutating("x") : MapMut(fn)
  \/ \E fn \in Mutating(undefined) : ForEachMut(fn)

SpecMutate == Init /\ [][NextMut]_vars

\* ------------------------------------------------------------------ claims

\* C1: FIFO order.  After pushes v1..vn made on an empty queue with no pop in
\* between, the pops made so far have returned v1, v2, ... in that order, and
\* once n pops are done the queue is empty.
C1_FifoOrder ==
  run.phase = "pop" =>
    /\ Len(run.got) <= Len(run.vals)
    /\ run.got = SubSeq(run.vals, 1, Len(run.got))
    /\ (Len(run.got) = Len(run.vals) =>
          empty(This) /\ size(This) = 0 /\ toArray(This) = <<>> /\ front(This) = undefined)

C1_Witness ==
  /\ run.phase = "pop"
  /\ Len(run.vals) >= 3
  /\ run.vals[1] # run.vals[2]
  /\ Len(run.got) = Len(run.vals)

\* C2: as long as only push, pop, remove and removeAll have been called, size
\* is the number of pushes minus the pops made on a non-empty queue minus the
\* elements reported removed, and it is never negative.
C2_SizeAccounting ==
  /\ size(This) >= 0
  /\ (~usedClear => size(This) = nPush - nPop - nRemoved)

C2_Witness ==
  /\ ~usedClear
  /\ nPush >= 3
  /\ nPop >= 1
  /\ nRemoved >= 1
  /\ last.op = "pop"
  /\ empty(last.pre)

\* C3: whenever the queue is not empty, _back is the last link reachable from
\* _front along next, and _back.next is null.
C3_BackIsLast ==
  (~empty(This) \/ _front # null) =>
    /\ _back # null
    /\ next[_back] = null
    /\ \E k \in 0..(MaxNodes - 1) : walk(This, _front, k) = _back

\* removeAll has just deleted a trailing run of two matching links and left a survivor
C3_Witness ==
  /\ last.op = "removeAll"
  /\ last.ret = 2
  /\ Len(toArray(last.pre)) >= 3
  /\ StrictEq(back(last.pre), last.arg)
  /\ ~StrictEq(front(last.pre), last.arg)
  /\ ~empty(This)
  /\ _back # last.pre._back

\* C4: size = 0, empty, _front = null and _back = null hold together or not at all.
C4_EmptyEquivalence ==
  /\ (size(This) = 0) = empty(This)
  /\ empty(This) = (_front = null)
  /\ (_front = null) = (_back = null)

\* the last element has just been popped
C4_Witness ==
  /\ last.op = "pop"
  /\ size(last.pre) = 1
  /\ empty(This)
  /\ _front = null
  /\ _back = null

\* C5: following next from _front reaches null after exactly _size steps, over
\* pairwise distinct links, and toArray has length size with position i holding
\* the value of the i-th link.
C5_ChainMatchesCount ==
  /\ _size >= 0
  /\ walk(This, _front, _size) = null
  /\ \A k \in 0..(_size - 1) : walk(This, _front, k) # null
  /\ \A j, k \in 0..(_size - 1) : j # k => walk(This, _front, j) # walk(This, _front, k)
  /\ Len(toArray(This)) = size(This)
  /\ \A i \in 1..Len(toArray(This)) :
       /\ toArray(This)[i] # hole
       /\ toArray(This)[i] = value[walk(This, _front, i - 1)]

C5_Witness ==
  /\ last.op = "removeAll"
  /\ last.ret >= 1
  /\ size(This) >= 2
  /\ toArray(This)[1] # toArray(This)[2]

\* C6: remove(x) on a queue holding x returns true, lowers size by one and
\* deletes exactly the first occurrence of x from the front-to-back sequence.
C6_RemoveFirstOccurrence ==
  (last.op = "remove" /\ occurs(toArray(last.pre), last.arg)) =>
    /\ last.ret = TRUE
    /\ size(This) = size(last.pre) - 1
    /\ toArray(This) = without(toArray(last.pre), firstIndex(toArray(last.pre), last.arg))

\* x occurred twice, not at the front: the later occurrence is still there
C6_Witness ==
  /\ last.op = "remove"
  /\ countOf(toArray(last.pre), last.arg) = 2
  /\ firstIndex(toArray(last.pre), last.arg) = 2
  /\ last.ret = TRUE
  /\ occurs(toArray(This), last.arg)

\* C7: remove(x) on a queue that does not hold x returns false and changes
\* neither _front, _back, _size nor the chain.
C7_RemoveAbsent ==
  (last.op = "remove" /\ ~occurs(toArray(last.pre), last.arg)) =>
    /\ last.ret = FALSE
    /\ This = last.pre
    /\ toArray(This) = toArray(last.pre)

C7_Witness ==
  /\ last.op = "remove"
  /\ ~occurs(toArray(last.pre), last.arg)
  /\ size(last.pre) >= 2
  /\ last.ret = FALSE

\* C8: removeAll(x) leaves the previous sequence with every occurrence of x
\* filtered out, returns the number of occurrences, lowers size by it, changes
\* nothing when x is absent, and leaves _front and _back null when nothing survives.
C8_RemoveAllIsFilter ==
  last.op = "removeAll" =>
    /\ toArray(This) = filterOut(toArray(last.pre), last.arg)
    /\ last.ret = countOf(toArray(last.pre), last.arg)
    /\ size(This) = size(last.pre) - last.ret
    /\ (last.ret = 0 => This = last.pre)
    /\ (filterOut(toArray(last.pre), last.arg) = <<>> => _front = null /\ _back = null)

\* two occurrences deleted around a survivor, the last of them at the back
C8_Witness ==
  /\ last.op = "removeAll"
  /\ last.ret = 2
  /\ size(last.pre) = 4
  /\ StrictEq(front(last.pre), last.arg)
  /\ StrictEq(back(last.pre), last.arg)
  /\ size(This) = 2

\* C9: pop on an empty queue returns undefined and changes nothing; size stays 0.
C9_PopEmpty ==
  (last.op = "pop" /\ empty(last.pre)) =>
    /\ last.ret = undefined
    /\ This = last.pre
    /\ size(This) = 0

C9_Witness ==
  /\ last.op = "pop"
  /\ empty(last.pre)
  /\ nPop >= 2
  /\ last.ret = undefined

\* C10: right after clear, size is 0, front and back are undefined and pop
\* returns undefined.
C10_AfterClear ==
  last.op = "clear" =>
    /\ size(This) = 0
    /\ front(This) = undefined
    /\ back(This) = undefined
    /\ pop(This).ret = undefined

C10_Witness ==
  /\ last.op = "clear"
  /\ size(last.pre) >= 3
  /\ _front = null

\* C11: push(v) appends v: the sequence is the old one followed by v, back is
\* v, size grows by one, and front is unchanged unless the queue was empty,
\* where front is v too.
C11_PushAppends ==
  last.op = "push" =>
    /\ toArray(This) = Append(toArray(last.pre), last.arg)
    /\ back(This) = last.arg
    /\ size(This) = size(last.pre) + 1
    /\ front(This) = (IF empty(last.pre) THEN last.arg ELSE front(last.pre))

\* a push onto a non-empty queue that has already seen a pop and a removal
C11_Witness ==
  /\ last.op = "push"
  /\ size(last.pre) >= 1
  /\ nPop >= 1
  /\ nRemoved >= 1
  /\ front(This) # last.arg

\* C12: a queue constructed from toArray() of the queue has the same
\* sequence, size, front and back.
C12_RoundTrip ==
  /\ toArray(construct(toArray(This))) = toArray(This)
  /\ size(construct(toArray(This))) = size(This)
  /\ front(construct(toArray(This))) = front(This)
  /\ back(construct(toArray(This))) = back(This)

\* a queue of three, not all equal, whose links are no longer in allocation order
C12_Witness ==
  /\ size(This) >= 3
  /\ front(This) # back(This)
  /\ nRemoved >= 1
  /\ _front # 1
  /\ front(construct(toArray(This))) = front(This)

\* C13: a queue constructed from items is the empty queue with every item
\* pushed in order: toArray is items, front the first item, back the last,
\* size the length; without items it is empty.
C13_ConstructorPushesInOrder ==
  last.op = "new" =>
    /\ toArray(This) = last.arg
    /\ size(This) = Len(last.arg)
    /\ front(This) = (IF last.arg = <<>> THEN undefined ELSE last.arg[1])
    /\ back(This) = (IF last.arg = <<>> THEN undefined ELSE last.arg[Len(last.arg)])
    /\ (last.arg = <<>> => This = fresh /\ empty(This))
    /\ \A n \in 1..Len(last.arg) :
         construct(SubSeq(last.arg, 1, n)) = push(construct(SubSeq(last.arg, 1, n - 1)), last.arg[n])

C13_Witness ==
  /\ last.op = "new"
  /\ Len(last.arg) >= 2
  /\ last.arg[1] # last.arg[2]
  /\ size(This) = Len(last.arg)

\* C20: the linked queue refines the abstract sequence: after any interleaving
\* of push, pop, remove, removeAll and clear, toArray is S, size is Len(S),
\* front and back are the first and last element of S, and the last call
\* returned what the abstract operation returned.
C20_RefinesSequence ==
  /\ toArray(This) = abs.S
  /\ size(This) = Len(abs.S)
  /\ front(This) = (IF abs.S = <<>> THEN undefined ELSE abs.S[1])
  /\ back(This) = (IF abs.S = <<>> THEN undefined ELSE abs.S[Len(abs.S)])
  /\ (last.op \in {"push", "pop", "remove", "removeAll", "clear"} => last.ret = abs.ret)

C20_Witness ==
  /\ last.op = "remove"
  /\ abs.ret = TRUE
  /\ Len(abs.S) >= 2
  /\ abs.S[1] # abs.S[2]
  /\ nPop >= 1
  /\ usedClear

\* ------------------------------------------- vocabulary of traversal claims
Traversals == {"some", "every", "filter", "map", "forEach"}

Reads == {"size", "empty", "front", "back", "toArray"} \cup Traversals

minOf(S) == CHOOSE x \in S : \A y \in S : x <= y

\* the (value, index) pairs of the first n elements of the sequence s
visited(s, n) == [j \in 1..n |-> <<s[j], j - 1>>]

\* what the last call's function returns on the j-th element of the sequence s
answer(s, j) == invoke(last.arg, last.pre, s[j], j - 1).ret

\* C14: forEach calls the callback head to tail and stops at the first
\* element whose result is not undefined, returning that result; when every
\* result is undefined it visits every element once and returns undefined.
C14_ForEachStopsAtFirstResult ==
  (last.op = "forEach" /\ last.arg.kind # "throwAt") =>
    LET s == toArray(last.pre)
        stops == {j \in 1..Len(s) : answer(s, j) # undefined}
    IN /\ ~last.threw
       /\ IF stops = {}
            THEN last.ret = undefined /\ last.calls = visited(s, Len(s))
            ELSE last.ret = answer(s, minOf(stops)) /\ last.calls = visited(s, minOf(stops))

\* the callback returned false (not undefined) on the second of three elements
C14_Witness ==
  /\ last.op = "forEach"
  /\ last.arg.kind = "stopAtIndex"
  /\ size(last.pre) = 3
  /\ last.ret = "false"
  /\ Len(last.calls) = 2

\* C15: some and every call the predicate head to tail up to and including
\* the first deciding element (true for some, false for every); some is true
\* and every is false exactly when there is one.
C15_SomeEveryShortCircuit ==
  (last.op \in {"some", "every"} /\ last.arg.kind # "throwAt") =>
    LET s == toArray(last.pre)
        deciding == {j \in 1..Len(s) : answer(s, j) = (last.op = "some")}
    IN /\ ~last.threw
       /\ last.ret = IF last.op = "some" THEN deciding # {} ELSE deciding = {}
       /\ last.calls = visited(s, IF deciding = {} THEN Len(s) ELSE minOf(deciding))

C15_Witness ==
  /\ last.op = "some"
  /\ last.arg.kind = "valueIs"
  /\ size(last.pre) = 3
  /\ last.ret = TRUE
  /\ Len(last.calls) = 2

\* C16: every traversal hands each element's value and 0-based position to
\* the function; a traversal that runs to the end hands over 0 .. size-1.
C16_IndexIsPosition ==
  last.op \in Traversals =>
    LET s == toArray(last.pre)
        toTheEnd == /\ ~last.threw
                    /\ (last.op = "some" => last.ret = FALSE)
                    /\ (last.op = "every" => last.ret = TRUE)
                    /\ (last.op = "forEach" => last.ret = undefined)
    IN /\ Len(last.calls) <= Len(s)
       /\ last.calls = visited(s, Len(last.calls))
       /\ (toTheEnd => Len(last.calls) = size(last.pre))

C16_Witness ==
  /\ last.op = "filter"
  /\ ~last.threw
  /\ Len(last.calls) = 3
  /\ last.calls[3][2] = 2

\* C17: map returns a sequence of length size whose i-th entry is the
\* transform applied to the i-th element and its index; empty on an empty queue.
C17_MapIsPositional ==
  (last.op = "map" /\ last.arg.kind # "throwAt") =>
    LET s == toArray(last.pre)
    IN /\ ~last.threw
       /\ Len(last.ret) = size(last.pre)
       /\ \A j \in 1..Len(last.ret) : j <= Len(s) /\ last.ret[j] = answer(s, j)
       /\ (empty(last.pre) => last.ret = <<>>)

C17_Witness ==
  /\ last.op = "map"
  /\ last.arg.kind = "mark"
  /\ size(last.pre) = 3
  /\ last.ret[2] = "x"
  /\ last.ret[3] = back(last.pre)

\* C18: the getters, toArray and the traversals leave _front, _back, _size and
\* the chain as they were, also when the function throws part-way; toArray
\* gives the same sequence again.
C18_ReadsChangeNothing ==
  last.op \in Reads =>
    /\ This = last.pre
    /\ toArray(This) = toArray(last.pre)
    /\ (last.op = "toArray" => last.ret = toArray(This))

\* the callback threw on the second of three elements
C18_Witness ==
  /\ last.op = "forEach"
  /\ last.threw
  /\ Len(last.calls) = 2
  /\ size(last.pre) = 3

\* C19: push, pop, clear and the getters enter no loop; remove, removeAll,
\* toArray and the traversals enter their loop body at most size times and
\* call the function at most size times.
C19_BoundedLoops ==
  last.op # "new" =>
    /\ last.iters >= 0
    /\ last.iters <= size(last.pre)
    /\ (last.op \in {"push", "pop", "clear", "size", "empty", "front", "back"} => last.iters = 0)
    /\ (last.op \in Traversals => Len(last.calls) <= size(last.pre) /\ Len(last.calls) = last.iters)

\* removeAll scanned all three links, deleting two
C19_Witness ==
  /\ last.op = "removeAll"
  /\ size(last.pre) = 3
  /\ last.iters = 3
  /\ last.ret = 2
  /\ ~StrictEq(front(last.pre), last.arg)

\* ------------------------------------ the structure of the queue object
\* The chain from _front has exactly _size links and ends in null; _back is
\* its last link and has no next; _size is 0 exactly when _front is null and
\* exactly when _back is null.
wellFormed(q) ==
  /\ q._size >= 0
  /\ Cardinality(reachFrom(q, q._front, MaxNodes)) = q._size
  /\ walk(q, q._front, q._size) = null
  /\ (q._size > 0 =>
        /\ q._back # null
        /\ walk(q, q._front, q._size - 1) = q._back
        /\ q.next[q._back] = null)
  /\ (q._size = 0 <=> q._front = null)
  /\ (q._size = 0 <=> q._back = null)

\* C21: a function handed to some, every, filter, map or forEach that calls
\* push, pop, remove, removeAll or clear on the queue leaves the queue well
\* formed after each of its calls and when the traversal returns; the
\* traversal itself writes nothing, so the queue it returns with is the one
\* the last call of the function left (the one it started with if the
\* function was never called).
C21_WellFormedUnderMutatingCallbacks ==
  /\ wellFormed(This)
  /\ (last.op \in Traversals =>
        /\ Len(last.after) = Len(last.calls)
        /\ \A j \in 1..Len(last.after) : wellFormed(last.after[j])
        /\ This = collect(IF last.after = <<>> THEN last.pre ELSE last.after[Len(last.after)]))

\* forEach over three elements whose function called removeAll at its second
\* call, unlinking the link the loop stood on and the one after it: the loop
\* went on to the unlinked third link, and the queue keeps one element
C21_Witness ==
  /\ last.op = "forEach"
  /\ last.arg.ops = <<"none", "removeAll">>
  /\ size(last.pre) = 3
  /\ Len(last.calls) = 3
  /\ size(This) = 1
  /\ size(last.after[1]) = 3

====
